---- MODULE Spec2Model ----
(***************************************************************************)
(* The App component of TaskGlitch (src/App.tsx): the in-memory task list, *)
(* the initial load with its mount guard, the persistence effect, the      *)
(* add / edit / delete / undo handlers, the undo notification with its two *)
(* timers, and the summary memo.                                           *)
(*                                                                         *)
(* Numbers that can be fractional (roi, avgRoi, efficiency) are exact      *)
(* fractions <<n, d>> in lowest terms with d > 0.  NaN is <<0, 0>> and a   *)
(* missing field (JavaScript undefined) is <<>>.  A value of type T | null *)
(* is <<>> for null and <<v>> for v.                                       *)
(***************************************************************************)
EXTENDS Integers, Sequences, FiniteSets, TLC

VARIABLES
    tasks,            \* useState<Task[]>          App.tsx:11
    isLoading,        \* useState(true)            App.tsx:12
    lastDeletedTask,  \* useState<Task | null>     App.tsx:17
    showSnackbar,     \* useState(false)           App.tsx:18
    editingTask,      \* useState<Task | null>     App.tsx:22
    isAdding,         \* useState(false)           App.tsx:23
    summary,          \* useMemo over tasks        App.tsx:78
    fetches,          \* the pending fetchTasks() promises, one per run of the
                      \* init effect, each with the `mounted` flag of its run
    alive,            \* the component is mounted (its effects are live)
    storage,          \* the storage slot: null or the last list written
    autoTimer,        \* the 5000 ms setTimeout of the auto-close effect is pending
    clearTimers,      \* number of pending 300 ms setTimeout callbacks
    uuidCount,        \* number of ids crypto.randomUUID() has handed out
    now,              \* Date.now()
    loadFailed,       \* history: the catch branch ran on the mounted component
    hDeleted,         \* history: the task most recently passed to handleDelete,
                      \* kept while the notification of its deletion is shown
    undone            \* history: in the state that follows a press of Undo,
                      \* the task whose deletion the notification announced

vars == <<tasks, isLoading, lastDeletedTask, showSnackbar, editingTask, isAdding,
          summary, fetches, alive, storage, autoTimer, clearTimers, uuidCount,
          now, loadFailed, hDeleted, undone>>

-----------------------------------------------------------------------------
(* Bounds of the model *)

MaxAdds == 1
MaxClearTimers == 1
MaxSumLen == 2
LoadTime == 300000

(* Program constants *)

AutoCloseDelay == 5000
ClearDelay == 300
SeedAge1 == 100000
SeedAge2 == 200000

null == <<>>
undefined == <<>>
NaN == <<0, 0>>

-----------------------------------------------------------------------------
(* Numbers *)

Abs(n) == IF n < 0 THEN -n ELSE n

RECURSIVE Gcd(_, _)
Gcd(a, b) == IF b = 0 THEN a ELSE Gcd(b, a % b)

\* the fraction n / d (d # 0) in lowest terms with a positive denominator
Frac(n, d) ==
    LET g == Gcd(Abs(n), Abs(d))
        s == IF d < 0 THEN -1 ELSE 1
    IN  <<(s * n) \div g, (s * d) \div g>>

Num(n) == <<n, 1>>

IsNumber(x) == x # undefined /\ x # NaN

\* a + b of JavaScript: NaN when either side is NaN or undefined
Plus(a, b) ==
    IF ~IsNumber(a) \/ ~IsNumber(b) THEN NaN
    ELSE Frac(a[1] * b[2] + b[1] * a[2], a[2] * b[2])

\* a / n for an integer n # 0
DivInt(a, n) == IF ~IsNumber(a) THEN NaN ELSE Frac(a[1], a[2] * n)

\* parseFloat(x.toFixed(2)): the multiple of 1/100 nearest to x, the larger
\* one on a tie, the sign of a negative x set aside first
ToFixed2(x) ==
    IF ~IsNumber(x) THEN NaN
    ELSE LET m == Abs(x[1]) * 100
             q == m \div x[2]
             r == m % x[2]
             h == IF 2 * r >= x[2] THEN q + 1 ELSE q
         IN  Frac(IF x[1] < 0 THEN -h ELSE h, 100)

-----------------------------------------------------------------------------
(* utils/taskUtils and services/taskService *)

calculateRoi(revenue, timeTaken) ==
    IF timeTaken > 0 THEN Frac(revenue, timeTaken) ELSE Num(0)

INITIAL_TASKS ==
    << [id |-> "1", title |-> "Enterprise Upsell - Tech Corp", revenue |-> 5000,
        timeTaken |-> 10, roi |-> undefined, priority |-> "High",
        status |-> "In Progress", notes |-> "Follow up on Q3 expansion",
        createdAt |-> LoadTime - SeedAge1],
       [id |-> "2", title |-> "Mid-Market Renewal - Global Inc", revenue |-> 2000,
        timeTaken |-> 5, roi |-> undefined, priority |-> "Medium",
        status |-> "To Do", notes |-> "Renewal due next week",
        createdAt |-> LoadTime - SeedAge2] >>

\* what an earlier session may have left in the storage slot
SavedLists ==
    { << [id |-> "p1", title |-> "Saved", revenue |-> 7, timeTaken |-> 2,
          roi |-> calculateRoi(7, 2), priority |-> "Low", status |-> "Done",
          notes |-> "", createdAt |-> LoadTime - 1] >> }

fetchTasks(slot) == IF slot = null THEN INITIAL_TASKS ELSE slot[1]

saveTasksToStorage(list) == <<list>>

-----------------------------------------------------------------------------
(* The form *)

Forms ==
    { [title |-> "Deal A", revenue |-> 1, timeTaken |-> 3, priority |-> "Low",
       status |-> "Done", notes |-> "a"] }

\* taskData of handleSaveTask
TaskData(f) ==
    [title |-> f.title, revenue |-> f.revenue, timeTaken |-> f.timeTaken,
     priority |-> f.priority, status |-> f.status, notes |-> f.notes,
     roi |-> calculateRoi(f.revenue, f.timeTaken)]

\* { ...t, ...taskData }
Spread_Reversed(t, d) == t

Spread(t, d) ==
    [id |-> t.id, createdAt |-> t.createdAt, title |-> d.title,
     revenue |-> d.revenue, timeTaken |-> d.timeTaken, priority |-> d.priority,
     status |-> d.status, notes |-> d.notes, roi |-> d.roi]

\* crypto.randomUUID(): the (n+1)-th id handed out, distinct from all earlier
\* ones and, being a UUID, from the ids "1", "2" of the seed list
randomUUID(n) == "uuid-" \o ToString(n + 1)

NewTask(f, n, t) ==
    [id |-> randomUUID(n), createdAt |-> t] @@ TaskData(f)

-----------------------------------------------------------------------------
(* Derived values and effects *)

RECURSIVE SumOf(_, _)
SumOf(list, field) ==
    IF list = <<>> THEN Num(0)
    ELSE Plus(SumOf(SubSeq(list, 1, Len(list) - 1), field),
              LET v == list[Len(list)][field]
              IN  IF field = "roi" THEN v ELSE Num(v))

Summary_NoDivide(list) ==
    LET totalRevenue == SumOf(list, "revenue")
        totalTime == SumOf(list, "timeTaken")
    IN  [totalRevenue |-> totalRevenue,
         avgRoi |-> ToFixed2(SumOf(list, "roi")),
         efficiency |-> IF totalTime # Num(0)
                        THEN ToFixed2(Frac(totalRevenue[1], totalTime[1]))
                        ELSE Num(0)]

Summary(list) ==
    LET totalRevenue == SumOf(list, "revenue")
        avgRoi == IF Len(list) # 0 THEN DivInt(SumOf(list, "roi"), Len(list))
                  ELSE Num(0)
        totalTime == SumOf(list, "timeTaken")
    IN  [totalRevenue |-> totalRevenue,
         avgRoi |-> ToFixed2(avgRoi),
         efficiency |-> IF totalTime # Num(0)
                        THEN ToFixed2(Frac(totalRevenue[1], totalTime[1]))
                        ELSE Num(0)]

\* the persistence effect, run after a render that changed tasks or isLoading
PersistEffect_Inverted(list, loading, slot) ==
    IF loading THEN saveTasksToStorage(list) ELSE slot

PersistEffect(list, loading, slot) ==
    IF ~loading THEN saveTasksToStorage(list) ELSE slot

\* the auto-close effect, run after a render: its cleanup when showSnackbar
\* changed, then a new timer when showSnackbar is true
AutoCloseEffect(prevShow, show, timer) ==
    IF show = prevShow THEN timer ELSE show

\* if (mounted) of the init effect
MountGuard_Always(f) == TRUE

MountGuard(f) == f.mounted

ModalOpen == isAdding \/ editingTask # null

-----------------------------------------------------------------------------
(* Initial state: after the first render and the first run of the effects. *)
(* Under React strict mode the effects run, are cleaned up and run again   *)
(* before anything else happens.                                           *)

Init ==
    /\ tasks = <<>>
    /\ isLoading = TRUE
    /\ lastDeletedTask = null
    /\ showSnackbar = FALSE
    /\ editingTask = null
    /\ isAdding = FALSE
    /\ summary = Summary(<<>>)
    /\ fetches \in { << [mounted |-> TRUE] >>,
                     << [mounted |-> FALSE], [mounted |-> TRUE] >> }
    /\ alive = TRUE
    /\ storage \in {null} \cup { <<l>> : l \in SavedLists }
    /\ autoTimer = FALSE
    /\ clearTimers = 0
    /\ uuidCount = 0
    /\ now = LoadTime
    /\ loadFailed = FALSE
    /\ hDeleted = null
    /\ undone = null

UiState == <<lastDeletedTask, showSnackbar, editingTask, isAdding, autoTimer,
             clearTimers, uuidCount, now, hDeleted>>

-----------------------------------------------------------------------------
(* The initial load: const data = await fetchTasks() of the i-th pending   *)
(* run of the init effect completes                                        *)

RemoveAt(list, i) == SubSeq(list, 1, i - 1) \o SubSeq(list, i + 1, Len(list))

FetchResolve(i) ==
    /\ undone' = null
    /\ fetches' = RemoveAt(fetches, i)
    /\ LET data == fetchTasks(storage)
           applied == MountGuard(fetches[i]) /\ alive
       IN  /\ tasks' = IF applied THEN data ELSE tasks
           /\ isLoading' = IF applied THEN FALSE ELSE isLoading
           /\ summary' = Summary(tasks')
           /\ storage' = IF applied THEN PersistEffect(tasks', isLoading', storage)
                         ELSE storage
    /\ UNCHANGED <<alive, loadFailed, UiState>>

\* catch (error) { ...; if (mounted) setIsLoading(false); }
LoadingAfterCatch_Kept(applied, loading) == loading

LoadingAfterCatch(applied, loading) == IF applied THEN FALSE ELSE loading

FetchReject(i) ==
    /\ undone' = null
    /\ fetches' = RemoveAt(fetches, i)
    /\ LET applied == MountGuard(fetches[i]) /\ alive
       IN  /\ loadFailed' = (loadFailed \/ applied)
           /\ isLoading' = LoadingAfterCatch(applied, isLoading)
           /\ storage' = IF applied /\ isLoading' # isLoading
                         THEN PersistEffect(tasks, isLoading', storage)
                         ELSE storage
    /\ UNCHANGED <<tasks, summary, alive, UiState>>

\* the cleanup of every effect when the component is torn down
Unmount ==
    /\ undone' = null
    /\ alive
    /\ alive' = FALSE
    /\ fetches' = [i \in DOMAIN fetches |-> [mounted |-> FALSE]]
    /\ autoTimer' = FALSE
    /\ UNCHANGED <<tasks, isLoading, lastDeletedTask, showSnackbar, editingTask,
                   isAdding, summary, storage, clearTimers, uuidCount, now,
                   loadFailed, hDeleted>>

-----------------------------------------------------------------------------
(* The dialogs.  No handler checks whether a dialog is open. *)

Rendered == alive /\ ~isLoading

OpenAdd ==
    /\ undone' = null
    /\ Rendered
    /\ isAdding' = TRUE
    /\ UNCHANGED <<tasks, isLoading, lastDeletedTask, showSnackbar, editingTask,
                   summary, fetches, alive, loadFailed, storage, autoTimer,
                   clearTimers, uuidCount, now, hDeleted>>

OpenEdit(i) ==
    /\ undone' = null
    /\ Rendered
    /\ editingTask' = <<tasks[i]>>
    /\ UNCHANGED <<tasks, isLoading, lastDeletedTask, showSnackbar, isAdding,
                   summary, fetches, alive, loadFailed, storage, autoTimer,
                   clearTimers, uuidCount, now, hDeleted>>

CloseModal ==
    /\ undone' = null
    /\ Rendered /\ ModalOpen
    /\ isAdding' = FALSE
    /\ editingTask' = null
    /\ UNCHANGED <<tasks, isLoading, lastDeletedTask, showSnackbar, summary,
                   fetches, alive, loadFailed, storage, autoTimer, clearTimers,
                   uuidCount, now, hDeleted>>

-----------------------------------------------------------------------------
(* handleSaveTask *)

EditedList(list, editing, f) ==
    [i \in DOMAIN list |->
        IF list[i].id = editing.id THEN Spread(list[i], TaskData(f)) ELSE list[i]]

AddedList(list, f, n, t) == Append(list, NewTask(f, n, t))

handleSaveTask(f) ==
    /\ undone' = null
    /\ Rendered /\ ModalOpen
    /\ IF editingTask # null
       THEN /\ tasks' = EditedList(tasks, editingTask[1], f)
            /\ editingTask' = null
            /\ UNCHANGED <<isAdding, uuidCount, now>>
       ELSE /\ uuidCount < MaxAdds
            /\ tasks' = AddedList(tasks, f, uuidCount, now + 1)
            /\ uuidCount' = uuidCount + 1
            /\ now' = now + 1
            /\ isAdding' = FALSE
            /\ UNCHANGED editingTask
    /\ summary' = Summary(tasks')
    /\ storage' = PersistEffect(tasks', isLoading, storage)
    /\ UNCHANGED <<isLoading, lastDeletedTask, showSnackbar, fetches, alive,
                   loadFailed, autoTimer, clearTimers, hDeleted>>

-----------------------------------------------------------------------------
(* handleDelete, handleUndo and the undo notification *)

Filter_Keep(list, id) == SelectSeq(list, LAMBDA t : t.id = id)

Filter(list, id) == SelectSeq(list, LAMBDA t : t.id # id)

handleDelete(i) ==
    /\ undone' = null
    /\ Rendered
    /\ lastDeletedTask' = <<tasks[i]>>
    /\ tasks' = Filter(tasks, tasks[i].id)
    /\ showSnackbar' = TRUE
    /\ autoTimer' = AutoCloseEffect(showSnackbar, showSnackbar', autoTimer)
    /\ summary' = Summary(tasks')
    /\ storage' = PersistEffect(tasks', isLoading, storage)
    /\ hDeleted' = <<tasks[i]>>
    /\ UNCHANGED <<isLoading, editingTask, isAdding, fetches, alive, loadFailed,
                   clearTimers, uuidCount, now>>

\* closeSnackbar, and the auto-close effect that follows its render
closeSnackbar ==
    /\ showSnackbar' = FALSE
    /\ hDeleted' = null
    /\ clearTimers' = clearTimers + 1
    /\ autoTimer' = AutoCloseEffect(showSnackbar, showSnackbar', FALSE)

handleUndo ==
    /\ undone' = hDeleted
    /\ Rendered /\ showSnackbar
    /\ IF lastDeletedTask # null
       THEN /\ clearTimers < MaxClearTimers
            /\ tasks' = Append(tasks, lastDeletedTask[1])
            /\ closeSnackbar
            /\ summary' = Summary(tasks')
            /\ storage' = PersistEffect(tasks', isLoading, storage)
       ELSE UNCHANGED <<tasks, showSnackbar, clearTimers, autoTimer, summary,
                        storage, hDeleted>>
    /\ UNCHANGED <<isLoading, lastDeletedTask, editingTask, isAdding, fetches,
                   alive, loadFailed, uuidCount, now>>

Dismiss ==
    /\ undone' = null
    /\ Rendered /\ showSnackbar
    /\ clearTimers < MaxClearTimers
    /\ closeSnackbar
    /\ UNCHANGED <<tasks, isLoading, lastDeletedTask, editingTask, isAdding,
                   summary, fetches, alive, loadFailed, storage, uuidCount, now>>

\* the 5000 ms timer fires.  Every pending 300 ms timer was set before it
\* and is due earlier.
AutoCloseFire ==
    /\ undone' = null
    /\ autoTimer
    /\ clearTimers = 0 \/ AutoCloseDelay <= ClearDelay
    /\ closeSnackbar
    /\ UNCHANGED <<tasks, isLoading, lastDeletedTask, editingTask, isAdding,
                   summary, fetches, alive, loadFailed, storage, uuidCount, now>>

\* a 300 ms timer fires: setLastDeletedTask(null), without effect on a
\* component that is no longer mounted
ClearTimerFire ==
    /\ undone' = null
    /\ clearTimers > 0
    /\ clearTimers' = clearTimers - 1
    /\ lastDeletedTask' = IF alive THEN null ELSE lastDeletedTask
    /\ UNCHANGED <<tasks, isLoading, showSnackbar, editingTask, isAdding, summary,
                   fetches, alive, loadFailed, storage, autoTimer, uuidCount, now,
                   hDeleted>>

-----------------------------------------------------------------------------

Next ==
    \/ \E i \in DOMAIN fetches : FetchResolve(i)
    \/ \E i \in DOMAIN fetches : FetchReject(i)
    \/ Unmount
    \/ OpenAdd
    \/ \E i \in DOMAIN tasks : OpenEdit(i)
    \/ CloseModal
    \/ \E f \in Forms : handleSaveTask(f)
    \/ \E i \in DOMAIN tasks : handleDelete(i)
    \/ handleUndo
    \/ Dismiss
    \/ AutoCloseFire
    \/ ClearTimerFire

Spec == Init /\ [][Next]_vars

-----------------------------------------------------------------------------
(* The summary as a function of the list: every list of at most MaxSumLen  *)
(* tasks over SumRevenues x SumTimes, each with its roi as saved.          *)

SumRevenues == {0, 1, 2}

SumTimes == {-1, 0, 1, 3, 8}

SumTasks ==
    { [id |-> "s", title |-> "", revenue |-> r, timeTaken |-> t,
       roi |-> calculateRoi(r, t), priority |-> "Low", status |-> "Done",
       notes |-> "", createdAt |-> LoadTime] : r \in SumRevenues, t \in SumTimes }

\* ids are distinct within a list
SumLists ==
    { [i \in DOMAIN l |-> [l[i] EXCEPT !.id = "s" \o ToString(i)]] :
          l \in UNION { [1..n -> SumTasks] : n \in 0..MaxSumLen } }

InitSummary ==
    /\ tasks \in SumLists
    /\ isLoading = FALSE
    /\ lastDeletedTask = null
    /\ showSnackbar = FALSE
    /\ editingTask = null
    /\ isAdding = FALSE
    /\ summary = Summary(<<>>)
    /\ fetches = <<>>
    /\ alive = TRUE
    /\ storage = saveTasksToStorage(tasks)
    /\ autoTimer = FALSE
    /\ clearTimers = 0
    /\ uuidCount = 0
    /\ now = LoadTime
    /\ loadFailed = FALSE
    /\ hDeleted = null
    /\ undone = null

\* the render that follows setTasks: the memo is computed from the new list
Recompute ==
    /\ summary' = Summary(tasks)
    /\ UNCHANGED <<tasks, isLoading, lastDeletedTask, showSnackbar, editingTask,
                   isAdding, fetches, alive, loadFailed, storage, autoTimer,
                   clearTimers, uuidCount, now, hDeleted, undone>>

NextSummary == Recompute

SpecSummary == InitSummary /\ [][NextSummary]_vars

-----------------------------------------------------------------------------
(* Properties *)

Count(list, P(_)) == Cardinality({i \in DOMAIN list : P(list[i])})

Roi(revenue, timeTaken) ==
    IF timeTaken > 0 THEN Frac(revenue, timeTaken) ELSE Num(0)

Failed == loadFailed

PendingTimers == (IF autoTimer THEN 1 ELSE 0) + clearTimers

\* C1: a delete removes exactly one record, the one with the deleted task's
\* id; the list gets shorter by one and every other record stays, unchanged
\* and in the same order.
C1_DeleteRemovesOne ==
    [][\A i \in DOMAIN tasks :
           handleDelete(i) =>
               /\ \A j \in DOMAIN tasks : tasks[j].id = tasks[i].id => j = i
               /\ Len(tasks') = Len(tasks) - 1
               /\ tasks' = RemoveAt(tasks, i)]_vars

\* C1: a task of a three-task list was deleted, the two others are left
C1_Witness ==
    /\ showSnackbar
    /\ lastDeletedTask # null
    /\ lastDeletedTask = hDeleted
    /\ Len(tasks) = 2
    /\ \A i \in DOMAIN tasks : tasks[i].id # lastDeletedTask[1].id

\* C2 (as claimed): once Undo has been pressed on the shown notification, the
\* task deleted last is in the list exactly once, with every field as it was
\* before the delete.
C2_UndoRestores ==
    undone # null =>
        /\ Count(tasks, LAMBDA t : t = undone[1]) = 1
        /\ Count(tasks, LAMBDA t : t.id = undone[1].id) = 1

\* C3 (as claimed): after the initial load every task of the list has roi
\* equal to revenue / timeTaken when timeTaken > 0 and to 0 otherwise.
C3_RoiDerived ==
    ~isLoading =>
        \A i \in DOMAIN tasks :
            tasks[i].roi = Roi(tasks[i].revenue, tasks[i].timeTaken)

\* C4: once the initial load has finished, the list written last to storage
\* is the in-memory list.
C4_StorageMirrorsList ==
    ~isLoading => storage = <<tasks>>

\* C4: after an edit, an add, a delete and its undo the storage holds the list
C4_Witness ==
    /\ ~isLoading
    /\ storage = <<tasks>>
    /\ undone # null
    /\ Len(tasks) = 3
    /\ tasks[3] = undone[1]
    /\ tasks[2].id = randomUUID(0)
    /\ tasks[1].id = "2" /\ tasks[1].title = "Deal A"

\* C5 (as claimed): at most one setTimeout callback is pending in every
\* state, and none of the notification's is pending once it is dismissed.
C5_OneDeferredAction ==
    /\ PendingTimers <= 1
    /\ ~showSnackbar => ~autoTimer

\* C6: the completion of a load whose effect was cleaned up before it
\* completed, by success or by failure, changes neither the list nor the
\* loading flag nor the storage.
C6_LateLoadDiscarded ==
    [][\A i \in DOMAIN fetches :
           (~fetches[i].mounted /\ (FetchResolve(i) \/ FetchReject(i)))
           => UNCHANGED <<tasks, isLoading, storage>>]_vars

\* C6: the load completed after the unmount and nothing was loaded or saved
C6_Witness ==
    /\ ~alive
    /\ fetches = <<>>
    /\ isLoading
    /\ tasks = <<>>
    /\ storage = null

\* C7: after a load that failed on the mounted component the loading flag
\* is false, the list holds nothing but what was added since, and the page
\* with its handlers is rendered: a task can be added.
C7_LoadFailureUsable ==
    Failed =>
        /\ ~isLoading
        /\ uuidCount = 0 => tasks = <<>>
        /\ \A i \in DOMAIN tasks :
               \E n \in 0..(uuidCount - 1) : tasks[i].id = randomUUID(n)
        /\ alive => Rendered
        /\ alive => ENABLED OpenAdd

\* C7: after a failed load a task was added, deleted and restored
C7_Witness ==
    /\ Failed
    /\ undone # null
    /\ Len(tasks) = 1
    /\ tasks[1] = undone[1]
    /\ tasks[1].id = randomUUID(0)
    /\ tasks[1].title = "Deal A"

\* C8: saving an edit of T replaces, in place, the record with T's id (the
\* list holds at most one) by a record with the same id and createdAt and
\* the submitted fields and their roi, and changes nothing else; saving with
\* nothing being edited appends one record whose id is not in the list.
C8_SaveTask ==
    [][\A f \in Forms :
           handleSaveTask(f) =>
               IF editingTask # null
               THEN /\ Len(tasks') = Len(tasks)
                    /\ Count(tasks, LAMBDA t : t.id = editingTask[1].id) <= 1
                    /\ \A i \in DOMAIN tasks :
                           IF tasks[i].id = editingTask[1].id
                           THEN tasks'[i] =
                                    [id |-> tasks[i].id,
                                     createdAt |-> tasks[i].createdAt,
                                     title |-> f.title, revenue |-> f.revenue,
                                     timeTaken |-> f.timeTaken,
                                     priority |-> f.priority,
                                     status |-> f.status, notes |-> f.notes,
                                     roi |-> calculateRoi(f.revenue, f.timeTaken)]
                           ELSE tasks'[i] = tasks[i]
               ELSE /\ Len(tasks') = Len(tasks) + 1
                    /\ SubSeq(tasks', 1, Len(tasks)) = tasks
                    /\ \A i \in DOMAIN tasks :
                           tasks[i].id # tasks'[Len(tasks')].id]_vars

\* C8: the first seed task was edited and a task was added behind the seed
C8_Witness ==
    /\ Len(tasks) = 3
    /\ tasks[1].id = "1" /\ tasks[1].title = "Deal A"
    /\ tasks[2].id = "2" /\ tasks[2].title = "Mid-Market Renewal - Global Inc"
    /\ tasks[3].id = randomUUID(0) /\ tasks[3].title = "Deal A"
    /\ tasks[1].createdAt = LoadTime - SeedAge1
    /\ editingTask = null /\ ~isAdding

\* the exact quotients of the summary
ExactAvgRoi(list) ==
    IF list = <<>> THEN Num(0) ELSE DivInt(SumOf(list, "roi"), Len(list))

ExactEfficiency(list) ==
    LET rev == SumOf(list, "revenue")
        time == SumOf(list, "timeTaken")
    IN  IF time = Num(0) THEN Num(0) ELSE Frac(rev[1], time[1])

\* r is x rounded to two decimals: a multiple of 1/100 within 1/200 of x,
\* and on a tie the one farther from zero
RoundedTo2(r, x) ==
    /\ IsNumber(r)
    /\ 100 % r[2] = 0
    /\ 200 * Abs(r[1] * x[2] - x[1] * r[2]) <= r[2] * x[2]
    /\ 200 * Abs(r[1] * x[2] - x[1] * r[2]) = r[2] * x[2]
       => Abs(r[1]) * x[2] > Abs(x[1]) * r[2]

C10_BufferHoldsLastDeleted ==
    showSnackbar => (lastDeletedTask # null /\ lastDeletedTask = hDeleted)

====
